---- MODULE Spec2Model ----
(***************************************************************************)
(* Model of src/server.js: the POST /upload handler of the file-upload     *)
(* demo.  A buffer or a string is a sequence of numbers: a Buffer is a     *)
(* sequence of bytes (0..255), a JavaScript string a sequence of UTF-16    *)
(* code units.  Indices returned by IndexOf are 0-based, as in JavaScript, *)
(* and -1 stands for "not found".                                          *)
(*                                                                         *)
(* The model follows one request to the server through its callbacks:      *)
(* the request callback (routing, content-type and boundary checks), the   *)
(* 'data' events, the 'end' event (the whole multipart parse and the start *)
(* of fs.writeFile), the 'error' event and the completion callback of      *)
(* fs.writeFile.  An exception thrown inside a callback is uncaught: the   *)
(* process dies (crashed).                                                 *)
(***************************************************************************)
EXTENDS Integers, Sequences, FiniteSets

VARIABLES
  pc,          \* where the request is: idle, reading, writing, done, errored
  req,         \* the request as sent: how its content-type and body were built
  pending,     \* the chunks of the request body not yet delivered by 'data'
  body,        \* let body = []: the chunks received so far
  boundary,    \* const boundary = `--${boundaryMatch[1]}`
  rawName,     \* the argument sanitizeFilename was called with, when it was
  filename,    \* let filename, as the write callback sees it
  writeCall,   \* the arguments of the pending or finished fs.writeFile call
  response,    \* the response the client got (the first writeHead/end pair)
  headCalls,   \* how many times res.writeHead was called for the request
  errored,     \* the request stream has emitted 'error'
  files,       \* the files of the file system, path and bytes
  opened,      \* the pending fs.writeFile has opened its file
  crashed      \* an uncaught exception ended the process

vars == <<pc, req, pending, body, boundary, rawName, filename, writeCall,
          response, headCalls, errored, files, opened, crashed>>

\* ------------------------------------------------------------------ bounds

\* Filenames of the request are all strings over NameAlphabet up to this length.
MaxNameLen == 3
\* Payloads of the request are all strings over PayloadAlphabet up to this length.
MaxPayloadLen == 2
\* The body arrives in 1..MaxChunks 'data' events.
MaxChunks == 2

\* ---------------------------------------------------------- byte constants

\* 'multipart/form-data'
MultipartPrefix == <<109, 117, 108, 116, 105, 112, 97, 114, 116, 47, 102, 111, 114, 109, 45, 100, 97, 116, 97>>
\* 'boundary='
BoundaryParam == <<98, 111, 117, 110, 100, 97, 114, 121, 61>>
\* 'Content-Disposition: form-data; name="myFile"; filename="'
DispositionPrefix == <<67, 111, 110, 116, 101, 110, 116, 45, 68, 105, 115, 112, 111, 115, 105, 116, 105, 111, 110, 58, 32, 102, 111, 114, 109, 45, 100, 97, 116, 97, 59, 32, 110, 97, 109, 101, 61, 34, 109, 121, 70, 105, 108, 101, 34, 59, 32, 102, 105, 108, 101, 110, 97, 109, 101, 61, 34>>
\* 'untitled'
DefaultFilename == <<117, 110, 116, 105, 116, 108, 101, 100>>
\* '\r\n'
CRLF == <<13, 10>>
\* '\r\n\r\n'
doubleCRLF == <<13, 10, 13, 10>>
\* '--'
TwoHyphens == <<45, 45>>
\* path.join(__dirname, 'uploads'), as its segments: /srv/uploads
UPLOAD_DIR == << <<115, 114, 118>>, <<117, 112, 108, 111, 97, 100, 115>> >>

\* --------------------------------------------------------- Buffer helpers

SetMin(S) == CHOOSE x \in S : \A y \in S : x <= y

\* Buffer.prototype.indexOf(pattern): the first 0-based offset at which pat
\* occurs in buf, -1 when it does not occur.
IndexOf(buf, pat) ==
  LET n == Len(buf)
      m == Len(pat)
      hits == {i \in 0..(n - m) : \A j \in 1..m : buf[i + j] = pat[j]}
  IN IF hits = {} THEN -1 ELSE SetMin(hits)

\* Buffer.prototype.slice(start, end): negative offsets count from the end,
\* offsets are clamped to the length, an end before the start gives the empty
\* buffer.
Slice(buf, start, end) ==
  LET n == Len(buf)
      clamp(x) == IF x < 0 THEN (IF n + x < 0 THEN 0 ELSE n + x)
                  ELSE IF x > n THEN n ELSE x
      s == clamp(start)
      e == clamp(end)
  IN IF e <= s THEN <<>> ELSE SubSeq(buf, s + 1, e)

\* Buffer.concat(list)
RECURSIVE BufferConcat(_)
BufferConcat(list) ==
  IF list = <<>> THEN <<>> ELSE Head(list) \o BufferConcat(Tail(list))

\* String.prototype.startsWith
StartsWith(s, prefix) ==
  /\ Len(prefix) <= Len(s)
  /\ \A j \in 1..Len(prefix) : s[j] = prefix[j]

\* Buffer.from(string): the UTF-8 encoding of the string.  A code unit below
\* U+0080 is one byte, one below U+0800 two bytes, a surrogate pair four, a
\* lone surrogate the three bytes of U+FFFD, any other code unit three.
Utf8Bytes(v) ==
  IF v < 128 THEN <<v>>
  ELSE IF v < 2048 THEN <<192 + (v \div 64), 128 + (v % 64)>>
  ELSE IF v < 65536
    THEN <<224 + (v \div 4096), 128 + ((v \div 64) % 64), 128 + (v % 64)>>
  ELSE <<240 + (v \div 262144), 128 + ((v \div 4096) % 64),
         128 + ((v \div 64) % 64), 128 + (v % 64)>>

RECURSIVE BufferFromAt(_, _, _)
BufferFromAt(str, i, acc) ==
  IF i > Len(str) THEN acc
  ELSE IF str[i] < 128
    THEN \* a run of ASCII characters is copied as it is
         LET others == {k \in i..Len(str) : str[k] >= 128}
             stop == IF others = {} THEN Len(str) + 1 ELSE SetMin(others)
         IN BufferFromAt(str, stop, acc \o SubSeq(str, i, stop - 1))
  ELSE IF str[i] \in 55296..56319 /\ i < Len(str) /\ str[i + 1] \in 56320..57343
    THEN BufferFromAt(str, i + 2,
           acc \o Utf8Bytes(65536 + (str[i] - 55296) * 1024 + (str[i + 1] - 56320)))
  ELSE IF str[i] \in 55296..57343
    THEN BufferFromAt(str, i + 1, acc \o Utf8Bytes(65533))
  ELSE BufferFromAt(str, i + 1, acc \o Utf8Bytes(str[i]))

BufferFrom(str) == BufferFromAt(str, 1, <<>>)

\* Buffer.prototype.toString('utf8'): a well-formed UTF-8 sequence becomes its
\* code point (as UTF-16 code units), every maximal ill-formed subsequence
\* becomes U+FFFD.
Utf16Units(v) ==
  IF v < 65536 THEN <<v>>
  ELSE <<55296 + ((v - 65536) \div 1024), 56320 + ((v - 65536) % 1024)>>

\* The bytes allowed as the second byte after lead byte b.
SecondByteRange(b) ==
  IF b = 224 THEN 160..191
  ELSE IF b = 237 THEN 128..159
  ELSE IF b = 240 THEN 144..191
  ELSE IF b = 244 THEN 128..143
  ELSE 128..191

\* The length of the sequence lead byte b starts, 0 when b is no lead byte.
Utf8Length(b) ==
  IF b \in 194..223 THEN 2
  ELSE IF b \in 224..239 THEN 3
  ELSE IF b \in 240..244 THEN 4
  ELSE 0

RECURSIVE Utf8From(_, _, _)
Utf8From(buf, i, acc) ==
  IF i > Len(buf) THEN acc
  ELSE IF buf[i] < 128
    THEN \* a run of ASCII bytes is copied as it is
         LET others == {k \in i..Len(buf) : buf[k] >= 128}
             stop == IF others = {} THEN Len(buf) + 1 ELSE SetMin(others)
         IN Utf8From(buf, stop, acc \o SubSeq(buf, i, stop - 1))
  ELSE
    LET b == buf[i]
        n == Utf8Length(b)
        okAt(j) == /\ i + j <= Len(buf)
                   /\ buf[i + j] \in (IF j = 1 THEN SecondByteRange(b) ELSE 128..191)
        \* how many bytes of the sequence are well-formed
        good == IF n = 0 THEN 1
                ELSE 1 + Cardinality({j \in 1..(n - 1) : \A k \in 1..j : okAt(k)})
        low(j) == buf[i + j] % 64
        v == IF n = 2 THEN (b % 32) * 64 + low(1)
             ELSE IF n = 3 THEN (b % 16) * 4096 + low(1) * 64 + low(2)
             ELSE (b % 8) * 262144 + low(1) * 4096 + low(2) * 64 + low(3)
    IN IF n > 0 /\ good = n
       THEN Utf8From(buf, i + n, acc \o Utf16Units(v))
       ELSE Utf8From(buf, i + good, Append(acc, 65533))

ToStringUtf8(buf) == Utf8From(buf, 1, <<>>)

\* ------------------------------------------------- the regular expressions

\* A match result: found, and the text of capture group 1.
NoMatch == [found |-> FALSE, val |-> <<>>]
Match(v) == [found |-> TRUE, val |-> v]

\* A line terminator, which '.' does not match: \n, \r, U+2028, U+2029.
IsLineTerminator(c) == c \in {10, 13, 8232, 8233}

\* /boundary=(.+)/.exec(contentType): at the first place where 'boundary=' is
\* followed by a character that is no line terminator, the capture is the run
\* of such characters (greedy).
BoundaryMatch(ct) ==
  LET n == Len(ct)
      m == Len(BoundaryParam)
      starts == {i \in 0..(n - m - 1) :
                   /\ \A j \in 1..m : ct[i + j] = BoundaryParam[j]
                   /\ ~IsLineTerminator(ct[i + m + 1])}
  IN IF starts = {} THEN NoMatch
     ELSE LET i == SetMin(starts)
              stops == {k \in (i + m + 1)..n : IsLineTerminator(ct[k])}
              last == IF stops = {} THEN n ELSE SetMin(stops) - 1
          IN Match(SubSeq(ct, i + m + 1, last))

\* Canonicalize of a case-insensitive (non-unicode) pattern: ASCII letters
\* compare by their upper case; no other character folds to an ASCII one.
Canonicalize(c) == IF c \in 97..122 THEN c - 32 ELSE c

\* The pattern of dispositionMatch matches at 0-based offset i of h: the
\* prefix (ignoring case), one or more characters that are not '"', then '"'.
\* run is the length of the capture.
QuoteRun(h, from) ==
  LET quotes == {k \in from..Len(h) : h[k] = 34}
  IN IF quotes = {} THEN -1 ELSE SetMin(quotes) - from

DispositionMatchAt(h, i) ==
  LET m == Len(DispositionPrefix)
  IN /\ i + m <= Len(h)
     /\ \A j \in 1..m : Canonicalize(h[i + j]) = Canonicalize(DispositionPrefix[j])
     /\ QuoteRun(h, i + m + 1) >= 1

\* /Content-Disposition: form-data; name="myFile"; filename="([^"]+)"/i.exec(rawHeaders)
DispositionMatch(h) ==
  LET m == Len(DispositionPrefix)
      starts == {i \in 0..(Len(h) - m) : DispositionMatchAt(h, i)}
  IN IF starts = {} THEN NoMatch
     ELSE LET i == SetMin(starts)
          IN Match(SubSeq(h, i + m + 1, i + m + QuoteRun(h, i + m + 1)))

\* ----------------------------------------------------- decodeURIComponent

IsHexDigit(c) == c \in 48..57 \/ c \in 65..70 \/ c \in 97..102

HexValue(c) ==
  IF c \in 48..57 THEN c - 48 ELSE IF c \in 65..70 THEN c - 55 ELSE c - 87

\* The result of a call that throws URIError.
URIError == [ok |-> FALSE, val |-> <<>>]

\* s[k] is '%' and the two characters after it are hexadecimal digits.
IsEscape(s, k) ==
  /\ k + 2 <= Len(s)
  /\ s[k] = 37
  /\ IsHexDigit(s[k + 1])
  /\ IsHexDigit(s[k + 2])

EscapeValue(s, k) == HexValue(s[k + 1]) * 16 + HexValue(s[k + 2])

\* The number of octets the escaped lead octet b announces: its leading one
\* bits; 0 for a count the decoder rejects (1, or more than 4).
OctetCount(b) ==
  IF b \in 192..223 THEN 2
  ELSE IF b \in 224..239 THEN 3
  ELSE IF b \in 240..247 THEN 4
  ELSE 0

\* ECMAScript Decode(string, reservedSet = {}), from the 1-based position k.
RECURSIVE DecodeFrom(_, _, _)
DecodeFrom(s, k, acc) ==
  IF k > Len(s) THEN [ok |-> TRUE, val |-> acc]
  ELSE IF s[k] # 37
    THEN \* the characters up to the next '%' are copied as they are
         LET escapes == {j \in k..Len(s) : s[j] = 37}
             stop == IF escapes = {} THEN Len(s) + 1 ELSE SetMin(escapes)
         IN DecodeFrom(s, stop, acc \o SubSeq(s, k, stop - 1))
  ELSE IF ~IsEscape(s, k) THEN URIError
  ELSE
    LET b == EscapeValue(s, k)
        n == OctetCount(b)
        at(j) == k + 3 * j
        contOk == \A j \in 1..(n - 1) :
                     /\ IsEscape(s, at(j))
                     /\ EscapeValue(s, at(j)) \in 128..191
        low(j) == EscapeValue(s, at(j)) % 64
        v == IF n = 2 THEN (b % 32) * 64 + low(1)
             ELSE IF n = 3 THEN (b % 16) * 4096 + low(1) * 64 + low(2)
             ELSE (b % 8) * 262144 + low(1) * 4096 + low(2) * 64 + low(3)
        least == IF n = 2 THEN 128 ELSE IF n = 3 THEN 2048 ELSE 65536
    IN IF b < 128 THEN DecodeFrom(s, k + 3, Append(acc, b))
       ELSE IF n = 0 THEN URIError
       ELSE IF ~contOk THEN URIError
       ELSE IF v < least \/ v \in 55296..57343 \/ v > 1114111 THEN URIError
       ELSE DecodeFrom(s, k + 3 * n, acc \o Utf16Units(v))

decodeURIComponent(s) == DecodeFrom(s, 1, <<>>)

\* --------------------------------------------------------- sanitizeFilename

\* The class [a-zA-Z0-9.\-_]
IsSafeChar(c) ==
  \/ c \in 97..122
  \/ c \in 65..90
  \/ c \in 48..57
  \/ c \in {46, 45, 95}

\* Faulty variant: replace(/[^a-zA-Z0-9.\-_]/g, ''), which drops the characters.
sanitizeFilenameDropping(name) ==
  LET RECURSIVE keep(_)
      keep(s) == IF s = <<>> THEN <<>>
                 ELSE IF IsSafeChar(Head(s)) THEN <<Head(s)>> \o keep(Tail(s))
                 ELSE keep(Tail(s))
  IN keep(name)

\* Faulty variant: replace(/[^a-zA-Z0-9.\-_]/, '_'), without the g flag: only the
\* first match is replaced.
sanitizeFilenameFirstOnly(name) ==
  LET bad == {i \in 1..Len(name) : ~IsSafeChar(name[i])}
  IN IF bad = {} THEN name
     ELSE [i \in 1..Len(name) |-> IF i = SetMin(bad) THEN 95 ELSE name[i]]

\* filename.replace(/[^a-zA-Z0-9.\-_]/g, '_')
sanitizeFilename(name) ==
  [i \in 1..Len(name) |-> IF IsSafeChar(name[i]) THEN name[i] ELSE 95]

\* ---------------------------------------------------------------- path.join

\* The segments of name between '/' characters.
RECURSIVE SplitPath(_, _)
SplitPath(name, from) ==
  LET slashes == {k \in from..Len(name) : name[k] = 47}
  IN IF slashes = {} THEN <<SubSeq(name, from, Len(name))>>
     ELSE <<SubSeq(name, from, SetMin(slashes) - 1)>>
          \o SplitPath(name, SetMin(slashes) + 1)

\* path.normalize over the segments: '' and '.' are dropped, '..' removes the
\* segment before it (nothing at the root).
RECURSIVE Normalize(_, _)
Normalize(segs, acc) ==
  IF segs = <<>> THEN acc
  ELSE LET s == Head(segs)
       IN IF s = <<>> \/ s = <<46>> THEN Normalize(Tail(segs), acc)
          ELSE IF s = <<46, 46>>
            THEN Normalize(Tail(segs),
                           IF acc = <<>> THEN acc ELSE SubSeq(acc, 1, Len(acc) - 1))
          ELSE Normalize(Tail(segs), Append(acc, s))

\* path.join(dir, name) for an absolute, normalized dir: the segments of the
\* resulting absolute path.
PathJoin(dir, name) == Normalize(SplitPath(name, 1), dir)

\* ------------------------------------------------------ the requests sent

\* 'X' and 'XYZ'
AsciiBoundaries == { <<88>>, <<88, 89, 90>> }
\* The byte E9: e with acute accent in latin1.
AccentBoundary == <<233>>
Boundaries == AsciiBoundaries \cup {AccentBoundary}

\* '.', '/', '%', '2', 'F', 'a', ' '
NameAlphabet == {46, 47, 37, 50, 70, 97, 32}

\* 'H', '-', '\n'
PayloadAlphabet == {72, 45, 10}

Strings(alphabet, n) == UNION {[1..k -> alphabet] : k \in 0..n}

\* 'a b.txt'
NameScenario == <<97, 32, 98, 46, 116, 120, 116>>
\* 'HELLO'
PayloadScenario == <<72, 69, 76, 76, 79>>

\* '../../etc/passwd', '%E0%A4', '%zz', '%2E%2E', 'b%C3%A9', 'a"b', 'é' (UTF-8)
ExtraNames ==
  { <<46, 46, 47, 46, 46, 47, 101, 116, 99, 47, 112, 97, 115, 115, 119, 100>>,
    <<37, 69, 48, 37, 65, 52>>,
    <<37, 122, 122>>,
    <<37, 50, 69, 37, 50, 69>>,
    <<98, 37, 67, 51, 37, 65, 57>>,
    <<97, 34, 98>>,
    <<195, 169>> }

Names == Strings(NameAlphabet, MaxNameLen) \cup ExtraNames \cup {NameScenario}

\* '', 'a', 'a b.txt'
SmallNames == { <<>>, <<97>>, NameScenario }

\* '\r\n', '\r\n\r\n', '--X--Z'
ExtraPayloads == { CRLF, doubleCRLF, <<45, 45, 88, 45, 45, 90>> }

Payloads == Strings(PayloadAlphabet, MaxPayloadLen) \cup ExtraPayloads \cup {PayloadScenario}

CtKinds == {"absent", "textplain", "noboundary", "emptyboundary", "upper", "ok", "charset"}

\* 'multipart/form-data; boundary='
CtBoundaryLead == <<109, 117, 108, 116, 105, 112, 97, 114, 116, 47, 102, 111, 114, 109, 45, 100, 97, 116, 97, 59, 32, 98, 111, 117, 110, 100, 97, 114, 121, 61>>
\* 'Multipart/Form-Data; boundary='
CtUpperLead == <<77, 117, 108, 116, 105, 112, 97, 114, 116, 47, 70, 111, 114, 109, 45, 68, 97, 116, 97, 59, 32, 98, 111, 117, 110, 100, 97, 114, 121, 61>>
\* '; charset=utf-8'
CtCharsetTail == <<59, 32, 99, 104, 97, 114, 115, 101, 116, 61, 117, 116, 102, 45, 56>>
\* 'text/plain'
CtTextPlain == <<116, 101, 120, 116, 47, 112, 108, 97, 105, 110>>

\* req.headers['content-type'] of the request: undefined when the header is
\* absent.  The bytes of a header value arrive as the code units of the same
\* values (latin1), so a boundary byte E9 is the character U+00E9 here.
ContentTypeOf(ctk, B) ==
  IF ctk = "absent" THEN [present |-> FALSE, val |-> <<>>]
  ELSE [present |-> TRUE,
        val |-> IF ctk = "textplain" THEN CtTextPlain
                ELSE IF ctk = "noboundary" THEN MultipartPrefix
                ELSE IF ctk = "emptyboundary" THEN CtBoundaryLead
                ELSE IF ctk = "upper" THEN CtUpperLead \o B
                ELSE IF ctk = "charset" THEN CtBoundaryLead \o B \o CtCharsetTail
                ELSE CtBoundaryLead \o B]

HeaderKinds == {"file", "withtype", "lowercase", "nofilename", "othername", "badquote"}

\* 'Content-Disposition: form-data; name="myFile"'
HdrNoFilename == <<67, 111, 110, 116, 101, 110, 116, 45, 68, 105, 115, 112, 111, 115, 105, 116, 105, 111, 110, 58, 32, 102, 111, 114, 109, 45, 100, 97, 116, 97, 59, 32, 110, 97, 109, 101, 61, 34, 109, 121, 70, 105, 108, 101, 34>>
\* 'Content-Disposition: form-data; name="other"; filename="'
HdrOtherName == <<67, 111, 110, 116, 101, 110, 116, 45, 68, 105, 115, 112, 111, 115, 105, 116, 105, 111, 110, 58, 32, 102, 111, 114, 109, 45, 100, 97, 116, 97, 59, 32, 110, 97, 109, 101, 61, 34, 111, 116, 104, 101, 114, 34, 59, 32, 102, 105, 108, 101, 110, 97, 109, 101, 61, 34>>
\* 'content-disposition: form-data; name="myfile"; filename="'
HdrLower == <<99, 111, 110, 116, 101, 110, 116, 45, 100, 105, 115, 112, 111, 115, 105, 116, 105, 111, 110, 58, 32, 102, 111, 114, 109, 45, 100, 97, 116, 97, 59, 32, 110, 97, 109, 101, 61, 34, 109, 121, 102, 105, 108, 101, 34, 59, 32, 102, 105, 108, 101, 110, 97, 109, 101, 61, 34>>
\* '\r\nContent-Type: text/plain'
HdrTypeLine == <<13, 10, 67, 111, 110, 116, 101, 110, 116, 45, 84, 121, 112, 101, 58, 32, 116, 101, 120, 116, 47, 112, 108, 97, 105, 110>>

\* The header block of the part a client sends for filename f.
PartHeader(hk, f) ==
  IF hk = "file" THEN DispositionPrefix \o f \o <<34>>
  ELSE IF hk = "withtype" THEN DispositionPrefix \o f \o <<34>> \o HdrTypeLine
  ELSE IF hk = "lowercase" THEN HdrLower \o f \o <<34>>
  ELSE IF hk = "nofilename" THEN HdrNoFilename
  ELSE IF hk = "othername" THEN HdrOtherName \o f \o <<34>>
  ELSE DispositionPrefix \o f

\* The shapes of body with a part header, and the ones without.
HeaderShapes == {"wellformed", "trailer", "noclose", "noopen", "noterm"}
BareShapes == {"degenerate", "overlap", "emptypart", "empty"}
Shapes == HeaderShapes \cup BareShapes

\* How the client writes the boundary in the body: the bytes it put in the
\* header ("raw"), or the UTF-8 encoding of the characters these bytes are in
\* latin1 ("utf8").  The two are the same for an ASCII boundary.
Encodings == {"raw", "utf8"}
BodyBoundary(enc, B) == IF enc = "utf8" THEN BufferFrom(B) ELSE B

\* The request body a client sends: the form of the source's comment for
\* "wellformed" (with the final CRLF browsers add for "trailer"), and the
\* malformed bodies the parser has to reject.
RequestBody(shape, B, hk, f, P) ==
  LET open == TwoHyphens \o B
      close == TwoHyphens \o B \o TwoHyphens
      h == PartHeader(hk, f)
  IN IF shape = "wellformed" THEN open \o CRLF \o h \o doubleCRLF \o P \o CRLF \o close
     ELSE IF shape = "trailer" THEN open \o CRLF \o h \o doubleCRLF \o P \o CRLF \o close \o CRLF
     ELSE IF shape = "noclose" THEN open \o CRLF \o h \o doubleCRLF \o P \o CRLF \o open
     ELSE IF shape = "noopen" THEN h \o doubleCRLF \o P
     ELSE IF shape = "noterm" THEN open \o CRLF \o h \o CRLF \o P \o CRLF \o close
     ELSE IF shape = "degenerate" THEN close \o P
     ELSE IF shape = "overlap" THEN open \o <<13>> \o close \o P
     ELSE IF shape = "emptypart" THEN open \o CRLF \o close \o P
     ELSE <<>>

\* The requests of the model: the scenario of the specification under every
\* content-type, every filename in a well-formed body, every shape of body
\* with every kind of header and every payload, and the bodies of a boundary
\* that is not ASCII, written either way.
Requests ==
  [ctk : CtKinds, B : Boundaries, enc : {"raw"}, shape : {"wellformed"}, hk : {"file"},
   f : {NameScenario}, P : {PayloadScenario}]
  \cup
  [ctk : {"ok"}, B : { <<88>> }, enc : {"raw"}, shape : {"wellformed"}, hk : {"file"},
   f : Names, P : { <<72>> }]
  \cup
  [ctk : {"ok"}, B : AsciiBoundaries, enc : {"raw"}, shape : HeaderShapes,
   hk : HeaderKinds, f : SmallNames, P : Payloads]
  \cup
  [ctk : {"ok"}, B : AsciiBoundaries, enc : {"raw"}, shape : BareShapes,
   hk : {"nofilename"}, f : { <<>> }, P : Payloads]
  \cup
  [ctk : {"ok"}, B : {AccentBoundary}, enc : Encodings, shape : Shapes,
   hk : {"file", "nofilename"}, f : { <<97>> }, P : { <<72>>, doubleCRLF }]

NoRequest ==
  [ctk |-> "none", B |-> <<>>, enc |-> "raw", shape |-> "none", hk |-> "none",
   f |-> <<>>, P |-> <<>>]

\* The body as the stream delivers it: n chunks of equal size (the last one
\* shorter), none of them empty.
RECURSIVE ChunksOf(_, _)
ChunksOf(buf, size) ==
  IF buf = <<>> THEN <<>>
  ELSE IF Len(buf) <= size THEN <<buf>>
  ELSE <<SubSeq(buf, 1, size)>> \o ChunksOf(SubSeq(buf, size + 1, Len(buf)), size)

Chunks(buf, n) == ChunksOf(buf, (Len(buf) + n - 1) \div n)

\* ------------------------------------------------------------ the responses

Resp(status, text) == [status |-> status, text |-> text]
NoResponse == Resp(0, "")

RespNotMultipart == Resp(400, "Bad Request: Expected multipart/form-data")
RespMissingBoundary == Resp(400, "Bad Request: Missing boundary in Content-Type")
RespNoBoundary == Resp(400, "Error: Could not find multipart boundary.")
RespNoEndBoundary == Resp(400, "Error: Could not find end multipart boundary.")
RespNoDoubleCRLF == Resp(400, "Error: Malformed multipart part (no double CRLF).")
RespSaveError == Resp(500, "Error saving file.")
RespUploaded == Resp(200, "File uploaded successfully!")
RespServerError == Resp(500, "Server error during request.")
RespForm == Resp(200, "upload form")
RespNotFound == Resp(404, "Not Found")

NoWrite == [called |-> FALSE, path |-> <<>>, data |-> <<>>]

\* ------------------------------------------------------- the 'end' handler

\* Faulty variant: the opening boundary is taken as found at offset 0 without a search.
FirstBoundaryIndexAssumed(fullBuffer, boundaryBuffer) == 0

\* fullBuffer.indexOf(boundaryBuffer)
FirstBoundaryIndex(fullBuffer, boundaryBuffer) == IndexOf(fullBuffer, boundaryBuffer)

\* Faulty variant: the end boundary searched without its '--' suffix, after the first.
LastBoundaryIndexNoSuffix(fullBuffer, bnd) ==
  LET first == IndexOf(fullBuffer, BufferFrom(bnd))
      rest == IndexOf(Slice(fullBuffer, first + 1, Len(fullBuffer)), BufferFrom(bnd))
  IN IF first = -1 \/ rest = -1 THEN -1 ELSE first + 1 + rest

\* fullBuffer.indexOf(Buffer.from(boundary + '--'))
LastBoundaryIndex(fullBuffer, bnd) == IndexOf(fullBuffer, BufferFrom(bnd \o TwoHyphens))

\* Faulty variant: the slice taken to the end of the buffer.
PartContentToEnd(fullBuffer, firstBoundaryIndex, boundaryLength, lastBoundaryIndex) ==
  Slice(fullBuffer, firstBoundaryIndex + boundaryLength + 2, Len(fullBuffer))

\* fullBuffer.slice(firstBoundaryIndex + boundaryBuffer.length + 2, lastBoundaryIndex)
PartContent(fullBuffer, firstBoundaryIndex, boundaryLength, lastBoundaryIndex) ==
  Slice(fullBuffer, firstBoundaryIndex + boundaryLength + 2, lastBoundaryIndex)

\* Outcomes of the handler: a response, a call of fs.writeFile, an exception.
Respond(r) ==
  [kind |-> "respond", response |-> r, named |-> FALSE, rawName |-> <<>>,
   filename |-> <<>>, path |-> <<>>, data |-> <<>>]
Throw ==
  [kind |-> "throw", response |-> NoResponse, named |-> FALSE, rawName |-> <<>>,
   filename |-> <<>>, path |-> <<>>, data |-> <<>>]
WriteFile(named, raw, name, data) ==
  [kind |-> "write", response |-> NoResponse, named |-> named, rawName |-> raw,
   filename |-> name, path |-> PathJoin(UPLOAD_DIR, name), data |-> data]

\* The body of req.on('end', ...) up to the call of fs.writeFile; bnd is the
\* string boundary, which the handler searches as Buffer.from makes it.
EndHandler(chunks, bnd) ==
  LET fullBuffer == BufferConcat(chunks)
      boundaryBuffer == BufferFrom(bnd)
      firstBoundaryIndex == FirstBoundaryIndex(fullBuffer, boundaryBuffer)
      lastBoundaryIndex == LastBoundaryIndex(fullBuffer, bnd)
      content == PartContent(fullBuffer, firstBoundaryIndex, Len(boundaryBuffer),
                             lastBoundaryIndex)
      headersEndIndex == IndexOf(content, doubleCRLF)
      rawHeaders == ToStringUtf8(Slice(content, 0, headersEndIndex))
      fileData == Slice(content, headersEndIndex + Len(doubleCRLF), Len(content))
      dispositionMatch == DispositionMatch(rawHeaders)
      decoded == decodeURIComponent(dispositionMatch.val)
  IN IF firstBoundaryIndex = -1 THEN Respond(RespNoBoundary)
     ELSE IF lastBoundaryIndex = -1 THEN Respond(RespNoEndBoundary)
     ELSE IF headersEndIndex = -1 THEN Respond(RespNoDoubleCRLF)
     ELSE IF dispositionMatch.found /\ dispositionMatch.val # <<>>
       THEN IF decoded.ok
              THEN WriteFile(TRUE, decoded.val, sanitizeFilename(decoded.val), fileData)
              ELSE Throw
       ELSE WriteFile(FALSE, <<>>, DefaultFilename, fileData)

\* const boundaryBuffer = Buffer.from(boundary), of the request at hand.
boundaryBuffer == BufferFrom(boundary)

\* A path fs.writeFile cannot write, whatever the disk: a directory that exists
\* (the upload directory and the directories above it).
IsDirectory(path) == \E k \in 0..Len(UPLOAD_DIR) : path = SubSeq(UPLOAD_DIR, 1, k)

\* ------------------------------------------------------------ the machine

\* What the upload directory holds when the server starts: it is created when
\* missing and kept as it is otherwise, here with a file 'a' holding 'OLD'.
InitialFiles ==
  { {}, {[path |-> UPLOAD_DIR \o << <<97>> >>, data |-> <<79, 76, 68>>]} }

Init ==
  /\ pc = "idle"
  /\ req = NoRequest
  /\ pending = <<>>
  /\ body = <<>>
  /\ boundary = <<>>
  /\ rawName = [called |-> FALSE, val |-> <<>>]
  /\ filename = <<>>
  /\ writeCall = NoWrite
  /\ response = NoResponse
  /\ headCalls = 0
  /\ errored = FALSE
  /\ files \in InitialFiles
  /\ opened = FALSE
  /\ crashed = FALSE

\* res.writeHead(...); res.end(...): a second writeHead of a request would
\* throw ERR_HTTP_HEADERS_SENT, which nothing catches.
SendResponse(r) ==
  /\ headCalls' = headCalls + 1
  /\ IF headCalls = 0
       THEN response' = r /\ crashed' = crashed
       ELSE response' = response /\ crashed' = TRUE

\* GET /: the upload form.
ServeForm ==
  /\ pc = "idle" /\ ~crashed
  /\ pc' = "done"
  /\ SendResponse(RespForm)
  /\ UNCHANGED <<req, pending, body, boundary, rawName, filename, writeCall,
                 errored, files, opened>>

\* Any other method or path.
NotFound ==
  /\ pc = "idle" /\ ~crashed
  /\ pc' = "done"
  /\ SendResponse(RespNotFound)
  /\ UNCHANGED <<req, pending, body, boundary, rawName, filename, writeCall,
                 errored, files, opened>>

\* POST /upload: the request callback, up to the registration of the handlers.
Upload(r, n) ==
  LET contentType == ContentTypeOf(r.ctk, r.B)
      boundaryMatch == BoundaryMatch(contentType.val)
  IN /\ pc = "idle" /\ ~crashed
     /\ req' = r
     /\ IF ~contentType.present \/ ~StartsWith(contentType.val, MultipartPrefix)
          THEN /\ SendResponse(RespNotMultipart)
               /\ pc' = "done"
               /\ UNCHANGED <<pending, boundary>>
          ELSE IF ~boundaryMatch.found
          THEN /\ SendResponse(RespMissingBoundary)
               /\ pc' = "done"
               /\ UNCHANGED <<pending, boundary>>
          ELSE /\ boundary' = TwoHyphens \o boundaryMatch.val
               /\ pending' = Chunks(RequestBody(r.shape, BodyBoundary(r.enc, r.B), r.hk, r.f, r.P), n)
               /\ pc' = "reading"
               /\ UNCHANGED <<response, headCalls, crashed>>
     /\ UNCHANGED <<body, rawName, filename, writeCall, errored, files, opened>>

\* A client posts one of the requests, its body cut into n chunks.
PostUpload ==
  /\ pc = "idle"
  /\ \E r \in Requests, n \in 1..MaxChunks : Upload(r, n)

\* req.on('data', chunk => body.push(chunk))
Data ==
  /\ pc = "reading" /\ ~crashed
  /\ pending # <<>>
  /\ body' = Append(body, Head(pending))
  /\ pending' = Tail(pending)
  /\ UNCHANGED <<pc, req, boundary, rawName, filename, writeCall, response,
                 headCalls, errored, files, opened, crashed>>

\* req.on('end', ...): the parse, then a 400 response, the start of
\* fs.writeFile, or the URIError of decodeURIComponent.
End ==
  LET out == EndHandler(body, boundary)
  IN /\ pc = "reading" /\ ~crashed
     /\ pending = <<>>
     /\ IF out.kind = "respond"
          THEN /\ SendResponse(out.response)
               /\ pc' = "done"
               /\ UNCHANGED <<rawName, filename, writeCall>>
          ELSE IF out.kind = "throw"
          THEN /\ crashed' = TRUE
               /\ pc' = "done"
               /\ UNCHANGED <<rawName, filename, writeCall, response, headCalls>>
          ELSE /\ rawName' = [called |-> out.named, val |-> out.rawName]
               /\ filename' = out.filename
               /\ writeCall' = [called |-> TRUE, path |-> out.path, data |-> out.data]
               /\ pc' = "writing"
               /\ UNCHANGED <<response, headCalls, crashed>>
     /\ UNCHANGED <<req, pending, body, boundary, errored, files, opened>>

\* req.on('error', ...): the stream fails while the body is read.  After the
\* error no 'end' follows, and after 'end' the stream is destroyed and emits
\* no 'error': the two listeners exclude each other.
ReqError ==
  /\ pc = "reading" /\ ~crashed
  /\ ~errored
  /\ errored' = TRUE
  /\ SendResponse(RespServerError)
  /\ pc' = "errored"
  /\ UNCHANGED <<req, pending, body, boundary, rawName, filename, writeCall, files, opened>>

\* The file at the path of the pending write, and how many of the bytes of the
\* data it holds.
WithFile(data) ==
  {x \in files : x.path # writeCall.path} \cup {[path |-> writeCall.path, data |-> data]}
Written == Len((CHOOSE x \in files : x.path = writeCall.path).data)

\* fs.writeFile(filePath, fileData, ...) works outside the listeners, and other
\* callbacks run while it does.  First the file is opened with flag 'w': it is
\* created, or emptied when it exists.  A directory cannot be opened (EISDIR).
WriteOpen ==
  /\ pc = "writing" /\ ~crashed
  /\ ~opened
  /\ ~IsDirectory(writeCall.path)
  /\ opened' = TRUE
  /\ files' = WithFile(<<>>)
  /\ UNCHANGED <<pc, req, pending, body, boundary, rawName, filename, writeCall,
                 response, headCalls, errored, crashed>>

\* Then the data is written, in one piece or in several: the file holds the
\* first n bytes.
WriteChunk ==
  /\ pc = "writing" /\ ~crashed
  /\ opened
  /\ \E n \in (Written + 1)..Len(writeCall.data) : files' = WithFile(SubSeq(writeCall.data, 1, n))
  /\ UNCHANGED <<pc, req, pending, body, boundary, rawName, filename, writeCall,
                 response, headCalls, errored, opened, crashed>>

\* The callback of fs.writeFile.  It runs without an error when the file was
\* opened and all the data written; it runs with an error when the open failed
\* (EISDIR, ENOENT, EACCES: the file system is as it was) or when a write or
\* the close failed (ENOSPC, EFBIG, EIO: the file stays as far as it got, and
\* what it held before is gone).
WriteDone(err) ==
  /\ pc = "writing" /\ ~crashed
  /\ ~err => opened /\ Written = Len(writeCall.data)
  /\ SendResponse(IF err THEN RespSaveError ELSE RespUploaded)
  /\ pc' = "done"
  /\ UNCHANGED <<req, pending, body, boundary, rawName, filename, writeCall,
                 errored, files, opened>>

Next ==
  \/ ServeForm
  \/ NotFound
  \/ PostUpload
  \/ Data
  \/ End
  \/ ReqError
  \/ WriteOpen
  \/ WriteChunk
  \/ \E err \in BOOLEAN : WriteDone(err)

Spec == Init /\ [][Next]_vars

\* ---------------------------------------------------------------- the claims

\* The 0-based offsets at which pat occurs in buf.
Occurrences(buf, pat) ==
  {i \in 0..(Len(buf) - Len(pat)) : \A j \in 1..Len(pat) : buf[i + j] = pat[j]}

\* pat occurs in buf.
Contains(buf, pat) == Occurrences(buf, pat) # {}

\* The offset of the first occurrence of pat in buf, which contains it.
FirstOffset(buf, pat) ==
  CHOOSE i \in Occurrences(buf, pat) : \A k \in Occurrences(buf, pat) : i <= k

\* The body of the request, as the client sent it.
SentBody == RequestBody(req.shape, BodyBoundary(req.enc, req.B), req.hk, req.f, req.P)

\* The content-type of the request, as the client sent it.
SentContentType == ContentTypeOf(req.ctk, req.B)

\* The 'end' handler of the request has run.
EndFired == boundary # <<>> /\ pc \in {"writing", "done"}

\* The request is a single-part body of the form the source expects, under the
\* content-type that names its boundary.
WellFormed ==
  /\ req.ctk = "ok"
  /\ req.shape = "wellformed"
  /\ req.hk = "file"

\* The characters sanitizeFilename keeps: [A-Za-z0-9._-]
AllowedChars == (65..90) \cup (97..122) \cup (48..57) \cup {46, 95, 45}

Elements(seq) == {seq[i] : i \in 1..Len(seq)}

\* The path of name directly under the upload directory.
InUploadDir(name) == UPLOAD_DIR \o <<name>>

\* C1 (as claimed): for a well-formed body with boundary B, filename f and
\* payload P (P without the bytes of B followed by '--'), the upload reaches
\* the write, the bytes handed to storage are exactly P and the name is
\* sanitize(f).  The filenames are the plain ones: not empty, without '"' and
\* '%', which the header syntax itself treats specially.
C1_RoundTrip ==
  ( /\ EndFired
    /\ WellFormed
    /\ req.f # <<>>
    /\ Elements(req.f) \cap {34, 37} = {}
    /\ ~Contains(req.P, req.B \o TwoHyphens) )
  => /\ writeCall.called
     /\ writeCall.data = req.P
     /\ filename = sanitizeFilename(ToStringUtf8(req.f))

\* C2 (as claimed): whatever the filename attribute, the sanitized filename has
\* no '/' and the path handed to fs.writeFile lies strictly inside the upload
\* directory: it is longer than UPLOAD_DIR and starts with it.
C2_Containment ==
  writeCall.called =>
    /\ 47 \notin Elements(filename)
    /\ Len(writeCall.path) > Len(UPLOAD_DIR)
    /\ SubSeq(writeCall.path, 1, Len(UPLOAD_DIR)) = UPLOAD_DIR

\* The filename attribute of the request is matched by the pattern and holds a
\* malformed percent-sequence.
MalformedPercent ==
  /\ WellFormed
  /\ req.f # <<>>
  /\ 34 \notin Elements(req.f)
  /\ ~decodeURIComponent(ToStringUtf8(req.f)).ok

\* C3 (as claimed): a malformed percent-sequence in the matched filename ends
\* the request with an error response, writes no file and leaves the process
\* running.
C3_DecodeErrorIsAnErrorResponse ==
  (EndFired /\ MalformedPercent) =>
    /\ ~crashed
    /\ response.status \in 400..599
    /\ ~writeCall.called

\* C4: sanitizeFilename returns a string of the length of its argument whose
\* character i is the argument's when that is in [A-Za-z0-9._-] and '_'
\* otherwise; the result has only allowed characters, and an argument that
\* differs only in its disallowed characters gives the same result.
C4_SanitizeCharacterwise ==
  rawName.called =>
    LET x == rawName.val
    IN /\ Len(filename) = Len(x)
       /\ \A i \in 1..Len(x) :
            filename[i] = IF x[i] \in AllowedChars THEN x[i] ELSE 95
       /\ Elements(filename) \subseteq AllowedChars
       /\ \A d \in {0, 32, 47, 92, 233} :
            sanitizeFilename([i \in 1..Len(x) |->
                               IF x[i] \in AllowedChars THEN x[i] ELSE d]) = filename

\* A name with an allowed and a disallowed character has been sanitized.
C4_Witness ==
  /\ rawName.called
  /\ 47 \in Elements(rawName.val)
  /\ 97 \in Elements(rawName.val)
  /\ 95 \in Elements(filename)

\* C5: sanitizing a sanitized name changes nothing:
\* sanitizeFilename(sanitizeFilename(x)) = sanitizeFilename(x).
C5_SanitizeIdempotent ==
  rawName.called =>
    /\ sanitizeFilename(sanitizeFilename(rawName.val)) = sanitizeFilename(rawName.val)
    /\ sanitizeFilename(filename) = filename

\* A name with two disallowed characters has been sanitized.
C5_Witness ==
  /\ rawName.called
  /\ Cardinality({i \in 1..Len(rawName.val) : rawName.val[i] \notin AllowedChars}) >= 2
  /\ filename # rawName.val

\* The opening and the closing boundary of the request, as bytes: '--', the
\* boundary parameter of the content-type and, for the closing one, '--'.  The
\* parameter is a string; its bytes are the ones Buffer.from gives it.
OpeningBytes == boundaryBuffer
ClosingBytes == boundaryBuffer \o TwoHyphens

\* The checks of an upload, on the request as sent.
CheckMultipart ==
  SentContentType.present /\ StartsWith(SentContentType.val, MultipartPrefix)
CheckBoundaryParam ==
  \E i \in 1..Len(SentContentType.val) :
    /\ i + Len(BoundaryParam) <= Len(SentContentType.val)
    /\ SubSeq(SentContentType.val, i, i + Len(BoundaryParam) - 1) = BoundaryParam
CheckOpening == Contains(SentBody, OpeningBytes)
CheckClosing == Contains(SentBody, ClosingBytes)
CheckTerminator ==
  LET from == FirstOffset(SentBody, OpeningBytes) + Len(OpeningBytes) + 2
      to == FirstOffset(SentBody, ClosingBytes)
  IN \E j \in Occurrences(SentBody, doubleCRLF) :
       from <= j /\ j + Len(doubleCRLF) <= to

\* The 400 response of the first check that fails, NoResponse when none does.
FirstFailure ==
  IF ~CheckMultipart THEN RespNotMultipart
  ELSE IF ~CheckBoundaryParam THEN RespMissingBoundary
  ELSE IF ~CheckOpening THEN RespNoBoundary
  ELSE IF ~CheckClosing THEN RespNoEndBoundary
  ELSE IF ~CheckTerminator THEN RespNoDoubleCRLF
  ELSE NoResponse

\* The header block of the request does not match the pattern with a
\* non-empty quoted filename: no filename attribute, an empty one, another
\* field name, or a filename whose closing quote is missing.
PatternCannotMatch ==
  \/ req.hk \in {"nofilename", "othername", "badquote"}
  \/ req.hk \in {"file", "withtype", "lowercase"} /\ req.f = <<>>

\* C6 (as claimed): when the header block of a part that passes the checks
\* does not match the pattern, the upload is no error: no 400 response is
\* sent, the parse goes on to the write, and what is stored under the name
\* 'untitled' is the payload.
C6_DefaultFilename ==
  ( /\ EndFired
    /\ req.shape \in {"wellformed", "trailer"}
    /\ FirstFailure = NoResponse
    /\ PatternCannotMatch
    /\ ~Contains(req.P, ClosingBytes) )
  => /\ response.status # 400
     /\ writeCall.called
     /\ ~rawName.called
     /\ filename = DefaultFilename
     /\ writeCall.path = InUploadDir(DefaultFilename)
     /\ writeCall.data = req.P

\* C7: a body with the opening boundary bytes and without the closing boundary
\* bytes anywhere ends with the 400 'Could not find end multipart boundary',
\* and no file is written: the upload directory holds what it held at the
\* start.
C7_NoEndBoundary ==
  ( /\ EndFired
    /\ Contains(SentBody, OpeningBytes)
    /\ ~Contains(SentBody, ClosingBytes) )
  => /\ response = RespNoEndBoundary
     /\ headCalls = 1
     /\ ~writeCall.called
     /\ files \in InitialFiles
     /\ pc = "done"

\* A body whose closing boundary lacks its '--' has been rejected, the
\* boundary being one whose bytes differ from its characters.
C7_Witness ==
  /\ EndFired
  /\ req.shape = "noclose"
  /\ req.B = AccentBoundary
  /\ Contains(SentBody, OpeningBytes)
  /\ response = RespNoEndBoundary

\* Both boundaries are found and the region between them is degenerate:
\* endIndex <= startIndex + boundaryLength + 2.
DegenerateRegion ==
  /\ EndFired
  /\ Contains(SentBody, ClosingBytes)
  /\ FirstOffset(SentBody, ClosingBytes)
       <= FirstOffset(SentBody, OpeningBytes) + Len(OpeningBytes) + 2

\* C8 (as claimed): a degenerate region fails with an error of its own,
\* MalformedPart, which is not the error of a missing header terminator.
C8_MalformedPartIsDistinct ==
  DegenerateRegion =>
    /\ response.status = 400
    /\ response # RespNoDoubleCRLF
    /\ ~writeCall.called

\* C8 (amended): a degenerate region fails with the 400 response of a missing
\* header terminator, 'Malformed multipart part (no double CRLF)', and no file
\* is written.
C8_DegenerateIsNoDoubleCRLF ==
  DegenerateRegion =>
    /\ response = RespNoDoubleCRLF
    /\ headCalls = 1
    /\ ~writeCall.called
    /\ files \in InitialFiles
    /\ pc = "done"

\* A body whose closing boundary starts one byte after the opening boundary
\* ends, and which goes on with a blank line, has been rejected.
C8_Witness ==
  /\ DegenerateRegion
  /\ FirstOffset(SentBody, ClosingBytes)
       = FirstOffset(SentBody, OpeningBytes) + Len(OpeningBytes) + 1
  /\ Contains(req.P, doubleCRLF)
  /\ response = RespNoDoubleCRLF

\* C9: the checks run in the order content-type, boundary parameter, opening
\* boundary, closing boundary, double CRLF; the response is the 400 of the
\* first one that fails, it is the only response, and then fs.writeFile is not
\* called and the upload directory is unchanged.  A 400 is sent only so.
C9_FirstFailingCheck ==
  (req.ctk # "none" /\ (pc = "done" \/ EndFired)) =>
    IF FirstFailure # NoResponse
      THEN /\ response = FirstFailure
           /\ headCalls = 1
           /\ ~writeCall.called
           /\ files \in InitialFiles
           /\ pc = "done"
      ELSE response.status # 400

\* A request whose boundary is not ASCII and whose body holds the bytes the
\* client put in the header, not the bytes searched, fails the opening and
\* the closing check and got the response of the opening check.
C9_Witness ==
  /\ EndFired
  /\ req.B = AccentBoundary /\ req.enc = "raw"
  /\ req.shape = "wellformed"
  /\ ~CheckOpening /\ ~CheckClosing
  /\ response = RespNoBoundary

\* C10 (as claimed): res.writeHead is called at most once for a request, and a
\* request whose stream has ended or failed, with no file write pending, has
\* its one response.
C10_ResponseExactlyOnce ==
  /\ headCalls <= 1
  /\ (req.ctk # "none" /\ pc \in {"done", "errored"}) => headCalls = 1

====
